---- MODULE Spec2Model ----
(***************************************************************************)
(* Model of app.py: the reaction-registration handler of the multi-reaction*)
(* E-pH / thermodynamics analyser.  A text is a sequence of one-character  *)
(* strings, so that every regular expression and str method of the source  *)
(* is computed character by character.                                     *)
(***************************************************************************)
EXTENDS Integers, Sequences, FiniteSets, TLC

(***************************************************************************)
(* Characters.                                                             *)
(***************************************************************************)
UpperSeq == <<"A","B","C","D","E","F","G","H","I","J","K","L","M",
              "N","O","P","Q","R","S","T","U","V","W","X","Y","Z">>
LowerSeq == <<"a","b","c","d","e","f","g","h","i","j","k","l","m",
              "n","o","p","q","r","s","t","u","v","w","x","y","z">>
DigitSeq == <<"0","1","2","3","4","5","6","7","8","9">>

\* The characters of the model in code-point order (Python compares str by it).
Ascii == <<" ", "(", ")", "+", "-">> \o DigitSeq \o <<"<", "=", ">">>
         \o UpperSeq \o <<"[", "\\", "]", "^", "_">> \o LowerSeq \o <<"{", "}">>

Range(s) == {s[i] : i \in 1..Len(s)}
Upper == Range(UpperSeq)
Digit == Range(DigitSeq)
Sign  == {"+", "-"}

IndexOf(seq, c) == CHOOSE i \in 1..Len(seq) : seq[i] = c
ord(c) == IF c \in Range(Ascii) THEN IndexOf(Ascii, c) ELSE Len(Ascii) + 1
DigitVal(c) == IndexOf(DigitSeq, c) - 1

\* str.lower() of one character, and of a text.
lower_char(c) == IF c \in Upper THEN LowerSeq[IndexOf(UpperSeq, c)] ELSE c
lower(s) == [i \in 1..Len(s) |-> lower_char(s[i])]

(***************************************************************************)
(* str methods.                                                            *)
(***************************************************************************)
Slice(s, i, j) == IF i > j THEN <<>> ELSE SubSeq(s, i, j)

StartsWithAt(s, i, pat) ==
    /\ i + Len(pat) - 1 <= Len(s)
    /\ \A k \in 1..Len(pat) : s[i + k - 1] = pat[k]

endswith(s, pat) == Len(pat) <= Len(s) /\ StartsWithAt(s, Len(s) - Len(pat) + 1, pat)

Contains(s, pat) == \E i \in 1..Len(s) : StartsWithAt(s, i, pat)

Min(S) == CHOOSE x \in S : \A y \in S : x <= y
Max(S) == CHOOSE x \in S : \A y \in S : x >= y

\* The scans below search for the leftmost match at or after a position and
\* recurse once per match, as re.sub, re.split, str.replace and str.split do.

\* str.replace(old, new): the non-overlapping occurrences, left to right.
RECURSIVE replace_from(_, _, _, _)
replace_from(s, i, old, new) ==
    LET occ == {j \in i..Len(s) : StartsWithAt(s, j, old)}
    IN  IF occ = {} THEN Slice(s, i, Len(s))
        ELSE Slice(s, i, Min(occ) - 1) \o new
             \o replace_from(s, Min(occ) + Len(old), old, new)
replace(s, old, new) == replace_from(s, 1, old, new)

\* str.split(sep) of what follows position i - 1.
RECURSIVE split_from(_, _, _)
split_from(s, i, sep) ==
    LET occ == {j \in i..Len(s) : StartsWithAt(s, j, sep)}
    IN  IF occ = {} THEN <<Slice(s, i, Len(s))>>
        ELSE <<Slice(s, i, Min(occ) - 1)>> \o split_from(s, Min(occ) + Len(sep), sep)
split(s, sep) == split_from(s, 1, sep)

\* End of the run of characters of class cls that starts at i (i - 1 when empty).
RunEnd(s, i, cls) ==
    LET stop == {j \in i..Len(s) : s[j] \notin cls}
    IN  IF stop = {} THEN Max({Len(s), i - 1}) ELSE Min(stop) - 1

\* Start of the run of characters of class cls that ends at j (j + 1 when empty).
RunStart(s, j, cls) ==
    LET stop == {i \in 1..j : s[i] \notin cls}
    IN  IF stop = {} THEN 1 ELSE Max(stop) + 1

Space == {" "}
strip(s) == Slice(s, RunEnd(s, 1, Space) + 1, RunStart(s, Len(s), Space) - 1)

\* str(v) of an integer.
RECURSIVE NatDigits(_)
NatDigits(n) ==
    IF n < 10 THEN <<DigitSeq[n + 1]>>
    ELSE NatDigits(n \div 10) \o <<DigitSeq[(n % 10) + 1]>>
str(v) == IF v < 0 THEN <<"-">> \o NatDigits(-v) ELSE NatDigits(v)

\* int(s) of a text of decimal digits.
RECURSIVE DigitsVal(_)
DigitsVal(s) ==
    IF Len(s) = 0 THEN 0
    ELSE 10 * DigitsVal(Slice(s, 1, Len(s) - 1)) + DigitVal(s[Len(s)])

(***************************************************************************)
(* clean_formula (lines 89-104).                                           *)
(***************************************************************************)
\* re.sub(r'\^\{?(\d*)([+-])\}?', r'\2\1', f)
\* The match at i: [d1, d2] the digits, sg the sign, nx the position after it.
SuperscriptAt(f, i) ==
    LET d1 == IF i + 1 <= Len(f) /\ f[i + 1] = "{" THEN i + 2 ELSE i + 1
        d2 == RunEnd(f, d1, Digit)
        sg == d2 + 1
    IN  [ok |-> f[i] = "^" /\ sg <= Len(f) /\ f[sg] \in Sign,
         d1 |-> d1, d2 |-> d2, sg |-> sg,
         nx |-> IF sg + 1 <= Len(f) /\ f[sg + 1] = "}" THEN sg + 2 ELSE sg + 1]

RECURSIVE sub_superscript(_, _)
sub_superscript(f, i) ==
    LET occ == {j \in i..Len(f) : SuperscriptAt(f, j).ok}
    IN  IF occ = {} THEN Slice(f, i, Len(f))
        ELSE LET m == SuperscriptAt(f, Min(occ))
             IN  Slice(f, i, Min(occ) - 1) \o <<f[m.sg]>> \o Slice(f, m.d1, m.d2)
                 \o sub_superscript(f, m.nx)

\* re.sub(r'_\{?(\d+)\}?', r'\1', f)
SubscriptAt(f, i) ==
    LET d1 == IF i + 1 <= Len(f) /\ f[i + 1] = "{" THEN i + 2 ELSE i + 1
        d2 == RunEnd(f, d1, Digit)
    IN  [ok |-> f[i] = "_" /\ d2 >= d1, d1 |-> d1, d2 |-> d2,
         nx |-> IF d2 + 1 <= Len(f) /\ f[d2 + 1] = "}" THEN d2 + 2 ELSE d2 + 1]

RECURSIVE sub_subscript(_, _)
sub_subscript(f, i) ==
    LET occ == {j \in i..Len(f) : SubscriptAt(f, j).ok}
    IN  IF occ = {} THEN Slice(f, i, Len(f))
        ELSE LET m == SubscriptAt(f, Min(occ))
             IN  Slice(f, i, Min(occ) - 1) \o Slice(f, m.d1, m.d2)
                 \o sub_subscript(f, m.nx)

\* re.sub(r'(\d+)([+-])', r'\2\1', f): a run of digits followed by a sign.
DigitsSignAt(f, i) ==
    LET d2 == RunEnd(f, i, Digit)
    IN  [ok |-> f[i] \in Digit /\ d2 + 1 <= Len(f) /\ f[d2 + 1] \in Sign, d2 |-> d2]

RECURSIVE sub_digits_sign(_, _)
sub_digits_sign(f, i) ==
    LET occ == {j \in i..Len(f) : DigitsSignAt(f, j).ok}
    IN  IF occ = {} THEN Slice(f, i, Len(f))
        ELSE LET d2 == DigitsSignAt(f, Min(occ)).d2
             IN  Slice(f, i, Min(occ) - 1) \o <<f[d2 + 1]>> \o Slice(f, Min(occ), d2)
                 \o sub_digits_sign(f, d2 + 2)

ElectronNames == { <<"e">>, <<"e","-">>, <<"e","-","1">>,
                   <<"e","l","e","c","t","r","o","n">> }

\* f.split(sign)[-1]: what follows the last occurrence of sign.
LastPiece(f, sign) == LET p == split(f, <<sign>>) IN p[Len(p)]
AnyDigit(s) == \E i \in 1..Len(s) : s[i] \in Digit

bare_sign(f, sign) ==
    IF endswith(f, <<sign>>) /\ ~AnyDigit(LastPiece(f, sign)) THEN f \o <<"1">> ELSE f

clean_formula(formula) ==
    LET f0 == strip(formula)
        f1 == sub_superscript(f0, 1)
        f2 == sub_subscript(f1, 1)
        f3 == replace(replace(f2, <<"[">>, <<>>), <<"]">>, <<>>)
        f4 == sub_digits_sign(f3, 1)
    IN  IF lower(f4) \in ElectronNames THEN <<"e","-","1">>
        ELSE bare_sign(bare_sign(f4, "+"), "-")

(***************************************************************************)
(* parse_side (lines 106-119).                                             *)
(***************************************************************************)
SpeciesStart == Upper \cup Digit \cup {"(", "["}

\* Length of the match of r'\s+\+\s+|\s*\+\s*(?=[A-Z0-9(\[])' at i, 0 when none.
SepMatch(s, i) ==
    LET w1 == RunEnd(s, i, Space)
        pl == w1 + 1
        w2 == RunEnd(s, pl + 1, Space)
    IN  IF pl > Len(s) \/ s[pl] # "+" THEN 0
        ELSE IF w1 >= i /\ w2 >= pl + 1 THEN w2 - i + 1
        ELSE IF w2 + 1 <= Len(s) /\ s[w2 + 1] \in SpeciesStart THEN w2 - i + 1
        ELSE 0

\* re.split of the pattern above.
RECURSIVE resplit_from(_, _)
resplit_from(s, i) ==
    LET occ == {j \in i..Len(s) : SepMatch(s, j) > 0}
    IN  IF occ = {} THEN <<Slice(s, i, Len(s))>>
        ELSE <<Slice(s, i, Min(occ) - 1)>>
             \o resplit_from(s, Min(occ) + SepMatch(s, Min(occ)))

\* re.match(r'^(\d+)?\s*(.*)$', s).group(2).strip()
strip_coefficient(s) ==
    LET d == RunEnd(s, 1, Digit)
        w == RunEnd(s, d + 1, Space)
    IN  strip(Slice(s, w + 1, Len(s)))

RECURSIVE parse_parts(_, _)
parse_parts(parts, i) ==
    IF i > Len(parts) THEN <<>>
    ELSE LET s == strip(parts[i])
             formula == strip_coefficient(s)
         IN  IF Len(s) = 0 \/ Len(formula) = 0 THEN parse_parts(parts, i + 1)
             ELSE <<clean_formula(formula)>> \o parse_parts(parts, i + 1)

parse_side(side_str) == parse_parts(resplit_from(strip(side_str), 1), 1)

(***************************************************************************)
(* The add-button handler's cleaning of the input (lines 162-183).         *)
(***************************************************************************)
\* s.replace(r'\(', '').replace(r'\)', '').replace(r'\[', '').replace(r'\]', '')
strip_delimiters(s) ==
    replace(replace(replace(replace(s, <<"\\", "(">>, <<>>), <<"\\", ")">>, <<>>),
                    <<"\\", "[">>, <<>>), <<"\\", "]">>, <<>>)

\* re.sub(r'\\text\{([^}]*)\}', r'\1', s)
TextOpen == <<"\\", "t", "e", "x", "t", "{">>
\* The closing brace of the match at i, 0 when there is no match.
TextClose(s, i) ==
    LET close == {j \in (i + Len(TextOpen))..Len(s) : s[j] = "}"}
    IN  IF StartsWithAt(s, i, TextOpen) /\ close # {} THEN Min(close) ELSE 0

RECURSIVE sub_text(_, _)
sub_text(s, i) ==
    LET occ == {j \in i..Len(s) : TextClose(s, j) > 0}
    IN  IF occ = {} THEN Slice(s, i, Len(s))
        ELSE Slice(s, i, Min(occ) - 1)
             \o Slice(s, Min(occ) + Len(TextOpen), TextClose(s, Min(occ)) - 1)
             \o sub_text(s, TextClose(s, Min(occ)) + 1)

\* re.sub(r'\\(?:long)?<name>', rep, s)
Long == <<"l", "o", "n", "g">>
ArrowText == <<" ", "-", ">", " ">>
LatexArrowAt(s, i, name) ==
    IF StartsWithAt(s, i, <<"\\">> \o Long \o name) THEN 5 + Len(name)
    ELSE IF StartsWithAt(s, i, <<"\\">> \o name) THEN 1 + Len(name)
    ELSE 0

RECURSIVE sub_latex_arrow(_, _, _, _)
sub_latex_arrow(s, i, name, rep) ==
    LET occ == {j \in i..Len(s) : LatexArrowAt(s, j, name) > 0}
    IN  IF occ = {} THEN Slice(s, i, Len(s))
        ELSE Slice(s, i, Min(occ) - 1) \o rep
             \o sub_latex_arrow(s, Min(occ) + LatexArrowAt(s, Min(occ), name), name, rep)

\* The arrows of line 175, in the order the loop replaces them.  A character
\* outside ASCII is written by its code point.
Arrows == << <<"<", "=", ">">>, <<"U+21CC">>, <<"U+21C4">>, <<"U+21C6">>,
             <<"<", "-", ">">>, <<"-", "-", ">">>, <<"-", ">">>, <<"=", "=">>,
             <<"=">>, <<"U+2192">>, <<"U+21D2">> >>

RECURSIVE replace_arrows(_, _)
replace_arrows(s, k) ==
    IF k > Len(Arrows) THEN s
    ELSE replace_arrows(replace(s, Arrows[k], ArrowText), k + 1)

normalize_input(new_input) ==
    LET s1 == sub_text(strip_delimiters(new_input), 1)
        s2 == sub_latex_arrow(s1, 1, <<"r","i","g","h","t","a","r","r","o","w">>,
                              ArrowText)
        s3 == sub_latex_arrow(s2, 1, <<"R","i","g","h","t","a","r","r","o","w">>,
                              ArrowText)
        s4 == sub_latex_arrow(s3, 1,
                  <<"l","e","f","t","r","i","g","h","t","a","r","r","o","w">>,
                  <<" ", "<", "=", ">", " ">>)
        s5 == replace(s4, <<"\\">>, <<>>)
    IN  replace_arrows(s5, 1)

\* re.sub(r'^[<>=+]*', '', re.sub(r'[<>=+]*$', '', t.strip()))
Junk == {"<", ">", "=", "+"}
trim_junk(t) ==
    LET u == strip(t)
        v == Slice(u, 1, RunStart(u, Len(u), Junk) - 1)
    IN  Slice(v, RunEnd(v, 1, Junk) + 1, Len(v))

(***************************************************************************)
(* chempy, as called on line 189: Substance.from_formula gives a species   *)
(* its composition (element -> count, and the charge under key 0), and     *)
(* balance_stoichiometry solves the conservation equations.                *)
(***************************************************************************)
symbols == {
    <<"H">>, <<"H","e">>, <<"L","i">>, <<"B","e">>, <<"B">>, <<"C">>,
    <<"N">>, <<"O">>, <<"F">>, <<"N","e">>, <<"N","a">>, <<"M","g">>,
    <<"A","l">>, <<"S","i">>, <<"P">>, <<"S">>, <<"C","l">>, <<"A","r">>,
    <<"K">>, <<"C","a">>, <<"S","c">>, <<"T","i">>, <<"V">>, <<"C","r">>,
    <<"M","n">>, <<"F","e">>, <<"C","o">>, <<"N","i">>, <<"C","u">>,
    <<"Z","n">>, <<"G","a">>, <<"G","e">>, <<"A","s">>, <<"S","e">>,
    <<"B","r">>, <<"K","r">>, <<"R","b">>, <<"S","r">>, <<"Y">>, <<"Z","r">>,
    <<"N","b">>, <<"M","o">>, <<"T","c">>, <<"R","u">>, <<"R","h">>,
    <<"P","d">>, <<"A","g">>, <<"C","d">>, <<"I","n">>, <<"S","n">>,
    <<"S","b">>, <<"T","e">>, <<"I">>, <<"X","e">>, <<"C","s">>, <<"B","a">>,
    <<"L","a">>, <<"C","e">>, <<"P","r">>, <<"N","d">>, <<"P","m">>,
    <<"S","m">>, <<"E","u">>, <<"G","d">>, <<"T","b">>, <<"D","y">>,
    <<"H","o">>, <<"E","r">>, <<"T","m">>, <<"Y","b">>, <<"L","u">>,
    <<"H","f">>, <<"T","a">>, <<"W">>, <<"R","e">>, <<"O","s">>, <<"I","r">>,
    <<"P","t">>, <<"A","u">>, <<"H","g">>, <<"T","l">>, <<"P","b">>,
    <<"B","i">>, <<"P","o">>, <<"A","t">>, <<"R","n">>, <<"F","r">>,
    <<"R","a">>, <<"A","c">>, <<"T","h">>, <<"P","a">>, <<"U">>, <<"N","p">>,
    <<"P","u">>, <<"A","m">>, <<"C","m">>, <<"B","k">>, <<"C","f">>,
    <<"E","s">>, <<"F","m">>, <<"M","d">>, <<"N","o">>, <<"L","r">>,
    <<"R","f">>, <<"D","b">>, <<"S","g">>, <<"B","h">>, <<"H","s">>,
    <<"M","t">>, <<"D","s">>, <<"R","g">>, <<"C","n">>, <<"N","h">>,
    <<"F","l">>, <<"M","c">>, <<"L","v">>, <<"T","s">>, <<"O","g">> }

ChargeKey == <<"0">>
EmptyComp == [k \in {} |-> 0]
get(comp, k) == IF k \in DOMAIN comp THEN comp[k] ELSE 0
AddComp(a, b) == [k \in DOMAIN a \cup DOMAIN b |-> get(a, k) + get(b, k)]
ScaleComp(a, n) == [k \in DOMAIN a |-> n * a[k]]

\* An optional count at i: [n |-> the count (default 1), next |-> what follows].
CountAt(s, i) ==
    LET e == RunEnd(s, i, Digit)
    IN  IF e >= i THEN [n |-> DigitsVal(Slice(s, i, e)), next |-> e + 1]
        ELSE [n |-> 1, next |-> i]

\* The element symbol at i, the longest that matches (<<>> when none).
ElementAt(s, i) ==
    IF i + 1 <= Len(s) /\ <<s[i], s[i + 1]>> \in symbols THEN <<s[i], s[i + 1]>>
    ELSE IF i <= Len(s) /\ <<s[i]>> \in symbols THEN <<s[i]>>
    ELSE <<>>

\* The formula grammar: one or more of (element count?) or ( '(' formula ')' count? ).
\* parse_items gives the number of items read from i, their composition and the
\* position after them; parse_item reads one item (ok = FALSE when there is none).
RECURSIVE parse_items(_, _)
RECURSIVE parse_item(_, _)
parse_item(s, i) ==
    LET fail == [ok |-> FALSE, comp |-> EmptyComp, next |-> i]
    IN  IF i > Len(s) THEN fail
        ELSE IF s[i] = "("
        THEN LET inner == parse_items(s, i + 1)
             IN  IF inner.n = 0 \/ inner.next > Len(s) \/ s[inner.next] # ")" THEN fail
                 ELSE LET c == CountAt(s, inner.next + 1)
                      IN  [ok |-> TRUE, comp |-> ScaleComp(inner.comp, c.n),
                           next |-> c.next]
        ELSE LET el == ElementAt(s, i)
             IN  IF el = <<>> THEN fail
                 ELSE LET c == CountAt(s, i + Len(el))
                      IN  [ok |-> TRUE, comp |-> (el :> c.n), next |-> c.next]
parse_items(s, i) ==
    LET it == parse_item(s, i)
    IN  IF ~it.ok THEN [n |-> 0, comp |-> EmptyComp, next |-> i]
        ELSE LET rest == parse_items(s, it.next)
             IN  [n |-> 1 + rest.n, comp |-> AddComp(it.comp, rest.comp),
                  next |-> rest.next]

\* _parse_stoich: the electron is no element; text after the last item is not read.
parse_stoich(stoich) ==
    IF stoich = <<"e">> THEN [ok |-> TRUE, comp |-> EmptyComp]
    ELSE LET r == parse_items(stoich, 1) IN [ok |-> r.n > 0, comp |-> r.comp]

\* int(text): an optional sign and decimal digits.
IsInt(text) ==
    LET d == IF Len(text) > 0 /\ text[1] \in Sign THEN Slice(text, 2, Len(text)) ELSE text
    IN  Len(d) > 0 /\ \A i \in 1..Len(d) : d[i] \in Digit
IntVal(text) ==
    IF text[1] = "-" THEN -DigitsVal(Slice(text, 2, Len(text)))
    ELSE IF text[1] = "+" THEN DigitsVal(Slice(text, 2, Len(text)))
    ELSE DigitsVal(text)

\* _get_charge of the text after the sign.
get_charge(sign, mag) ==
    LET sg == IF sign = "+" THEN 1 ELSE -1
    IN  IF mag = <<>> THEN [ok |-> TRUE, n |-> sg]
        ELSE IF IsInt(mag) THEN [ok |-> TRUE, n |-> sg * IntVal(mag)]
        ELSE [ok |-> FALSE, n |-> 0]

Suffixes == << <<"(","s",")">>, <<"(","l",")">>, <<"(","g",")">>, <<"(","a","q",")">> >>
drop_suffix(formula) ==
    LET hit == {k \in 1..Len(Suffixes) : endswith(formula, Suffixes[k])}
    IN  IF hit = {} THEN formula
        ELSE Slice(formula, 1, Len(formula) - Len(Suffixes[Min(hit)]))

Count(s, c) == Cardinality({i \in 1..Len(s) : s[i] = c})

\* formula_to_composition: [ok |-> FALSE] stands for the exception it raises.
formula_to_composition(formula) ==
    LET body == drop_suffix(formula)
        token == IF Count(body, "+") > 0 THEN "+"
                 ELSE IF Count(body, "-") > 0 THEN "-" ELSE ""
        bad == [ok |-> FALSE, comp |-> EmptyComp]
    IN  IF token = "" THEN parse_stoich(body)
        ELSE IF Count(body, token) > 1 THEN bad
        ELSE LET parts == split(body, <<token>>)
                 chg == get_charge(token, parts[2])
                 st == parse_stoich(parts[1])
             IN  IF ~chg.ok \/ ~st.ok THEN bad
                 ELSE [ok |-> TRUE, comp |-> AddComp(st.comp, ChargeKey :> chg.n)]

\* Python's order of two texts (by code point, a proper prefix first).
StrLess(a, b) ==
    \E i \in 1..(Len(b)) :
        /\ \A k \in 1..(i - 1) : k <= Len(a) /\ a[k] = b[k]
        /\ \/ i = Len(a) + 1
           \/ i <= Len(a) /\ ord(a[i]) < ord(b[i])

\* sorted(S) of a set of texts.
RECURSIVE sorted(_)
sorted(S) ==
    IF S = {} THEN <<>>
    ELSE LET m == CHOOSE x \in S : \A y \in S \ {x} : StrLess(x, y)
         IN  <<m>> \o sorted(S \ {m})

set(list) == Range(list)

Abs(n) == IF n < 0 THEN -n ELSE n
RECURSIVE Gcd(_, _)
Gcd(a, b) == IF b = 0 THEN Abs(a) ELSE Gcd(b, a % Abs(b))
Lcm(a, b) == (a * b) \div Gcd(a, b)
RECURSIVE GcdOf(_, _)
GcdOf(v, i) == IF i > Len(v) THEN 0 ELSE Gcd(v[i], GcdOf(v, i + 1))
RECURSIVE LcmOf(_)
LcmOf(S) == IF S = {} THEN 1 ELSE LET x == CHOOSE y \in S : TRUE IN Lcm(x, LcmOf(S \ {x}))

\* A row divided by the gcd of its entries (the equation is the same).
Primitive(v) == LET g == GcdOf(v, 1) IN IF g = 0 THEN v ELSE [j \in 1..Len(v) |-> v[j] \div g]

\* Gauss-Jordan elimination, column by column from the left, kept in integers:
\* a column with no entry left to pivot on is a free column of the solution.
RECURSIVE Eliminate(_, _, _, _)
Eliminate(rows, col, used, pivots) ==
    IF Len(rows) = 0 \/ col > Len(rows[1]) THEN [rows |-> rows, pivots |-> pivots]
    ELSE LET cand == {r \in 1..Len(rows) : r \notin used /\ rows[r][col] # 0}
         IN  IF cand = {} THEN Eliminate(rows, col + 1, used, pivots)
             ELSE LET r == Min(cand)
                      p == rows[r][col]
                      next == [i \in 1..Len(rows) |->
                                 IF i = r THEN rows[r]
                                 ELSE Primitive([j \in 1..Len(rows[i]) |->
                                          p * rows[i][j] - rows[i][col] * rows[r][j]])]
                  IN  Eliminate(next, col + 1, used \cup {r}, pivots @@ (col :> r))

\* The solution of A x = 0 that linsolve returns, with the parameter of each free
\* column scaled to clear the denominators: column c of the result is
\* sum over the free columns f of Basis(f)[c] * (the parameter of f).
Basis(red, n, f) ==
    LET rows == red.rows
        piv == red.pivots
        d == LcmOf({Abs(rows[piv[c]][c]) \div Gcd(rows[piv[c]][c], rows[piv[c]][f])
                    : c \in DOMAIN piv})
    IN  [c \in 1..n |->
            IF c = f THEN d
            ELSE IF c \in DOMAIN piv
                 THEN (0 - rows[piv[c]][f] * d) \div rows[piv[c]][c]
                 ELSE 0]

\* Whether component ck may be balanced at all: it occurs on this side (the
\* columns in side), or on the other side with both signs.
ComponentOk(ck, side, other, comps) ==
    \/ \E j \in side : get(comps[j], ck) # 0
    \/ /\ \E j \in other : get(comps[j], ck) > 0
       /\ \E j \in other : get(comps[j], ck) < 0

Fail(why) == [ok |-> FALSE, err |-> why, reac |-> <<>>, prod |-> <<>>]

\* A: one row per component, one column per species, the reactants' negated.
Matrix(cks, comps, nr) ==
    [r \in 1..Len(cks) |-> [j \in 1..Len(comps) |->
        get(comps[j], cks[r]) * (IF j <= nr THEN -1 ELSE 1)]]

FreeColumns(red, n) == {c \in 1..n : c \notin DOMAIN red.pivots}

\* The coefficient of column c, an expression c + sum of x[i] * (symbol x_i),
\* from basis, the Basis of each free column: column j has symbol x_(n-j+1),
\* and the leftmost free column carries the scale (its parameter is the
\* constant 1).
Coefficient(basis, n, c) ==
    [c |-> basis[Min(DOMAIN basis)][c],
     x |-> [i \in {n - f + 1 : f \in DOMAIN basis \ {Min(DOMAIN basis)}} |->
               basis[n - i + 1][c]]]

\* What is returned for the solution space spanned by basis.
Solution(rk, pk, n, basis) ==
    IF DOMAIN basis = {} THEN Fail("Failed to balance reaction")
    ELSE IF \E c \in 1..n : \A f \in DOMAIN basis : basis[f][c] = 0
         THEN Fail("Superfluous species given.")
    ELSE [ok |-> TRUE, err |-> "",
          reac |-> [j \in 1..Len(rk) |-> [k |-> rk[j], v |-> Coefficient(basis, n, j)]],
          prod |-> [j \in 1..Len(pk) |->
                       [k |-> pk[j], v |-> Coefficient(basis, n, Len(rk) + j)]]]

\* The solution of the reduced system red in n unknowns.
Solve(rk, pk, n, red) ==
    Solution(rk, pk, n, [f \in FreeColumns(red, n) |-> Basis(red, n, f)])

\* The balance of the species rk (reactants) and pk (products) whose
\* compositions are comps, in the order rk \o pk.
Balance(rk, pk, comps) ==
    LET n == Len(comps)
        cks == UNION {DOMAIN comps[j] : j \in 1..n}
        rcols == 1..Len(rk)
        pcols == (Len(rk) + 1)..n
    IN  IF \E ck \in cks : ~ComponentOk(ck, rcols, pcols, comps)
        THEN Fail("Component not among reactants")
        ELSE IF \E ck \in cks : ~ComponentOk(ck, pcols, rcols, comps)
        THEN Fail("Component not among products")
        ELSE Solve(rk, pk, n, Eliminate(Matrix(sorted(cks), comps, Len(rk)), 1, {}, <<>>))

Compositions(keys) == [j \in 1..Len(keys) |-> formula_to_composition(keys[j])]

\* The balance of the sorted species once their formulas are parsed.
balance_parsed(rk, pk, parsed) ==
    IF \E j \in 1..Len(parsed) : ~parsed[j].ok THEN Fail("formula")
    ELSE Balance(rk, pk, [j \in 1..Len(parsed) |-> parsed[j].comp])

balance_sorted(rk, pk) == balance_parsed(rk, pk, Compositions(rk \o pk))

\* The species of each side are taken in sorted order; the order decides which
\* columns of an under-determined system are free, never whether a result
\* conserves the components.
\* balance_stoichiometry(reactants, products) with the defaults
\* (underdetermined=True, allow_duplicates=False).  [ok |-> FALSE] stands for the
\* ValueError (or the formula parser's exception) raised.
balance_stoichiometry(reactants, products) ==
    IF reactants \cap products # {} THEN Fail("Substances on both sides")
    ELSE balance_sorted(sorted(reactants), sorted(products))

(***************************************************************************)
(* Thermodynamic data (lines 22-48, 121-147).  Enthalpies are in tenths of *)
(* kJ/mol and entropies in tenths of J/(mol K), the resolution of the      *)
(* table and of the rounding on lines 222-223.                             *)
(***************************************************************************)
THERMO_DB ==
    <<"H","2","O">> :> [h |-> -2858, s |-> 699] @@
    <<"H","+","1">> :> [h |-> 0, s |-> 0] @@
    <<"O","H","-","1">> :> [h |-> -2300, s |-> -108] @@
    <<"O","2">> :> [h |-> 0, s |-> 2051] @@
    <<"H","2">> :> [h |-> 0, s |-> 1307] @@
    <<"e","-","1">> :> [h |-> 0, s |-> 0] @@
    <<"F","e">> :> [h |-> 0, s |-> 273] @@
    <<"F","e","+","2">> :> [h |-> -891, s |-> -1377] @@
    <<"F","e","+","3">> :> [h |-> -485, s |-> -3159] @@
    <<"F","e","(","O","H",")","2">> :> [h |-> -5690, s |-> 880] @@
    <<"F","e","(","O","H",")","3">> :> [h |-> -8230, s |-> 1067] @@
    <<"F","e","3","O","4">> :> [h |-> -11184, s |-> 1464] @@
    <<"F","e","2","O","3">> :> [h |-> -8242, s |-> 874] @@
    <<"F","e","C","l","2">> :> [h |-> -3418, s |-> 1179] @@
    <<"F","e","C","l","3">> :> [h |-> -3995, s |-> 1423] @@
    <<"C","l","-","1">> :> [h |-> -1672, s |-> 565] @@
    <<"C","u">> :> [h |-> 0, s |-> 331] @@
    <<"C","u","+","2">> :> [h |-> 648, s |-> -996] @@
    <<"C","u","O">> :> [h |-> -1573, s |-> 426] @@
    <<"Z","n">> :> [h |-> 0, s |-> 416] @@
    <<"Z","n","+","2">> :> [h |-> -1533, s |-> -1121] @@
    <<"Z","n","O">> :> [h |-> -3505, s |-> 437]

\* thermo's Chemical(species), lines 130-131: the (Hf298 / 1000, S0) of the species
\* the library knows; for every other species the call raises.
ChemicalData ==
    <<"C","O","2">> :> [h |-> -3935, s |-> 2138] @@
    <<"C","O">> :> [h |-> -1105, s |-> 1977]

get_thermo_data(species, has_thermo) ==
    IF species \in DOMAIN THERMO_DB THEN THERMO_DB[species]
    ELSE IF has_thermo /\ species \in DOMAIN ChemicalData THEN ChemicalData[species]
    ELSE [h |-> 0, s |-> 0]

\* One of the two loops of estimate_reaction_thermo: acc is (dh, ds) so far and
\* sign is -1 for the reactants' loop, +1 for the products'.
RECURSIVE thermo_loop(_, _, _, _, _)
thermo_loop(d, i, acc, sign, has_thermo) ==
    IF i > Len(d) THEN acc
    ELSE LET t == get_thermo_data(d[i].k, has_thermo)
         IN  thermo_loop(d, i + 1,
                         [dh |-> acc.dh + sign * d[i].v * t.h,
                          ds |-> acc.ds + sign * d[i].v * t.s], sign, has_thermo)

\* estimate_reaction_thermo with the two loops' signs exchanged.
estimate_reaction_thermo_reversed(r_dict, p_dict, has_thermo) ==
    thermo_loop(p_dict, 1,
                thermo_loop(r_dict, 1, [dh |-> 0, ds |-> 0], 1, has_thermo),
                -1, has_thermo)

estimate_reaction_thermo(r_dict, p_dict, has_thermo) ==
    thermo_loop(p_dict, 1,
                thermo_loop(r_dict, 1, [dh |-> 0, ds |-> 0], -1, has_thermo),
                1, has_thermo)

(***************************************************************************)
(* The local functions of the add-button handler (lines 191-209).          *)
(***************************************************************************)
SumFn(f) ==
    LET RECURSIVE S(_)
        S(D) == IF D = {} THEN 0 ELSE LET i == CHOOSE j \in D : TRUE IN f[i] + S(D \ {i})
    IN  S(DOMAIN f)

\* to_int_d keeping the magnitude of each coefficient only.
to_int_d_magnitude(d) ==
    [i \in 1..Len(d) |-> [k |-> d[i].k, v |-> Abs(d[i].v.c + SumFn(d[i].v.x))]]

\* int(v.subs({sym: 1 for sym in v.free_symbols})) of every coefficient.
to_int_d(d) == [i \in 1..Len(d) |-> [k |-> d[i].k, v |-> d[i].v.c + SumFn(d[i].v.x)]]

Plus == <<" ", "+", " ">>
RECURSIVE join(_, _, _)
join(sep, items, i) ==
    IF i > Len(items) THEN <<>>
    ELSE IF i = Len(items) THEN items[i]
    ELSE items[i] \o sep \o join(sep, items, i + 1)

fmt(d) == join(Plus, [i \in 1..Len(d) |->
                         (IF d[i].v # 1 THEN str(d[i].v) ELSE <<>>) \o d[i].k], 1)

Electron == <<"e", "-", "1">>
ProtonNames == { <<"h", "+", "1">>, <<"h", "+">> }

\* count_spec telling only whether d holds the species.
count_spec_present(d, t) ==
    IF \E i \in 1..Len(d) : \/ t = "e" /\ lower(d[i].k) = Electron
                            \/ t = "h" /\ lower(d[i].k) \in ProtonNames
    THEN 1 ELSE 0

\* The first item of d, in the dict's order, that names the electron (t = "e") or
\* the proton (t = "h").
count_spec(d, t) ==
    LET hit == {i \in 1..Len(d) : \/ t = "e" /\ lower(d[i].k) = Electron
                                  \/ t = "h" /\ lower(d[i].k) \in ProtonNames}
    IN  IF hit = {} THEN 0 ELSE d[Min(hit)].v

\* round(a / b) for b > 0.
RoundDiv(a, b) == (2 * a + b) \div (2 * b)

\* e0_est of lines 213-216 in millivolts, the resolution of round(e0_est, 3):
\* dg_est = dh * 1000 - 298.15 * ds is (20000 * dh10 - 5963 * ds10) / 200 joules
\* for dh10, ds10 in tenths, and 96485 / 5 = 19297.
e0_estimate(dh, ds, n_e) ==
    IF n_e > 0 THEN RoundDiv(0 - (20000 * dh - 5963 * ds), n_e * 19297) ELSE 0

(***************************************************************************)
(* The add-button handler (lines 158-230) as a function of the text typed. *)
(* The result is the run's locals: kind is what the run shows, "success"   *)
(* (st.success, line 228), "no_separator" (st.error, line 179),            *)
(* "exception" (st.error, line 230) or "none" when nothing was typed       *)
(* (line 159); text is the message's argument; row is new_row; and         *)
(* free_symbols tells whether a coefficient of reac or prod had any.       *)
(***************************************************************************)
NoResult == [new_input |-> <<>>, kind |-> "none", text |-> <<>>, row |-> <<>>,
             r_list |-> <<>>, p_list |-> <<>>, free_symbols |-> FALSE,
             r_dict |-> <<>>, p_dict |-> <<>>]

\* Lines 197-228, once the coefficients are integers.
register(new_input, r_list, p_list, r_dict, p_dict, free_symbols, has_thermo) ==
    LET balanced == fmt(r_dict) \o ArrowText \o fmt(p_dict)
        n_e == Abs(count_spec(r_dict, "e") - count_spec(p_dict, "e"))
        m_h == count_spec(r_dict, "h") - count_spec(p_dict, "h")
        est == estimate_reaction_thermo(r_dict, p_dict, has_thermo)
    IN  [new_input |-> new_input, kind |-> "success", text |-> balanced,
         row |-> [orig |-> new_input, balanced |-> balanced,
                  E0 |-> e0_estimate(est.dh, est.ds, n_e),
                  dH |-> est.dh, dS |-> est.ds, n |-> n_e, m |-> m_h],
         r_list |-> r_list, p_list |-> p_list, free_symbols |-> free_symbols,
         r_dict |-> r_dict, p_dict |-> p_dict]

\* Whether a coefficient the balancer returned has free symbols.
HasFreeSymbols(d) == \E i \in 1..Len(d) : \E j \in DOMAIN d[i].v.x : d[i].v.x[j] # 0

\* The call with the products' species taken out of the reactants.
balance_call_disjoint(r_list, p_list) ==
    balance_stoichiometry(set(r_list) \ set(p_list), set(p_list))

\* Line 189.
balance_call(r_list, p_list) == balance_stoichiometry(set(r_list), set(p_list))

\* Lines 191-228: what follows the balancer's answer bal.
balanced_sides(new_input, r_list, p_list, bal, has_thermo) ==
    IF ~bal.ok
    THEN [NoResult EXCEPT !.new_input = new_input, !.kind = "exception",
                          !.text = bal.err, !.r_list = r_list, !.p_list = p_list]
    ELSE register(new_input, r_list, p_list, to_int_d(bal.reac), to_int_d(bal.prod),
                  HasFreeSymbols(bal.reac) \/ HasFreeSymbols(bal.prod), has_thermo)

\* Lines 188-189: the species lists handed to the balancer.
balance_lists(new_input, r_list, p_list, has_thermo) ==
    balanced_sides(new_input, r_list, p_list, balance_call(r_list, p_list), has_thermo)

\* Lines 183-186: the two sides trimmed and parsed.
split_sides(new_input, parts, has_thermo) ==
    balance_lists(new_input, parse_side(trim_junk(parts[1])),
                  parse_side(trim_junk(parts[2])), has_thermo)

\* Lines 178-181: the cleaned text s needs a separator.
split_or_error(new_input, s, has_thermo) ==
    IF ~Contains(s, ArrowText)
    THEN [NoResult EXCEPT !.new_input = new_input, !.kind = "no_separator"]
    ELSE split_sides(new_input, split(s, ArrowText), has_thermo)

\* The handler of the add button (lines 158-230).
add_handler(new_input, has_thermo) ==
    IF new_input = <<>> THEN NoResult
    ELSE split_or_error(new_input, normalize_input(new_input), has_thermo)

(***************************************************************************)
(* The texts a user types in the model:                                    *)
(*     1  MnO4- + 8H+1 + 5e-1 -> Mn+2 + 4H2O   (the permanganate half-reaction of the specification)*)
(*     2  Fe+3 + e-1 -> Fe+2   (the iron half-reaction in canonical form)  *)
(*     3  Fe^{3+} + e^- \rightarrow Fe^{2+}   (the same in LaTeX notation) *)
(*     4  H2O -> H2O + O2   (a species on both sides)                      *)
(*     5  H2 + H2 + O2 -> H2O   (a species twice on one side)              *)
(*     6  H2 + O2 -> H2O   (uniquely determined)                           *)
(*     7  C + O2 <=> CO + CO2   (under-determined)                         *)
(*     8  2 H+ + 2 e- = H2   (protons and electrons)                       *)
(*     9  H2 + CO -> H2O + CO2   (balanced only with negative coefficients)*)
(*    10  CO + O2 -> C + CO2   (under-determined, O2 cancels)              *)
(*    11  CO -> CO2   (no solution)                                        *)
(*    12  H2 O2   (no separator)                                           *)
(*    13  (empty)   (nothing typed)                                        *)
(*    14  H2 + O2 + H2O -> H2O   (a species on both sides of a reaction    *)
(*        that balances without it)                                        *)
(*    15  H2 -> 2 H+ + 2 e-   (protons and electrons among the products)   *)
(***************************************************************************)
Inputs == <<
    <<"M","n","O","4","-"," ","+"," ","8","H","+","1"," ","+"," ","5","e","-","1"," ","-",">"," ","M","n","+","2"," ","+"," ","4","H","2","O">>,
    <<"F","e","+","3"," ","+"," ","e","-","1"," ","-",">"," ","F","e","+","2">>,
    <<"F","e","^","{","3","+","}"," ","+"," ","e","^","-"," ","\\","r","i","g","h","t","a","r","r","o","w"," ","F","e","^","{","2","+","}">>,
    <<"H","2","O"," ","-",">"," ","H","2","O"," ","+"," ","O","2">>,
    <<"H","2"," ","+"," ","H","2"," ","+"," ","O","2"," ","-",">"," ","H","2","O">>,
    <<"H","2"," ","+"," ","O","2"," ","-",">"," ","H","2","O">>,
    <<"C"," ","+"," ","O","2"," ","<","=",">"," ","C","O"," ","+"," ","C","O","2">>,
    <<"2"," ","H","+"," ","+"," ","2"," ","e","-"," ","="," ","H","2">>,
    <<"H","2"," ","+"," ","C","O"," ","-",">"," ","H","2","O"," ","+"," ","C","O","2">>,
    <<"C","O"," ","+"," ","O","2"," ","-",">"," ","C"," ","+"," ","C","O","2">>,
    <<"C","O"," ","-",">"," ","C","O","2">>,
    <<"H","2"," ","O","2">>,
    <<>>,
    <<"H","2"," ","+"," ","O","2"," ","+"," ","H","2","O"," ","-",">"," ","H","2","O">>,
    <<"H","2"," ","-",">"," ","2"," ","H","+"," ","+"," ","2"," ","e","-">> >>

NInputs == Len(Inputs)

\* The handler's result for every text and both values of HAS_THERMO, computed once.
Handled == [has \in BOOLEAN |-> [i \in 1..NInputs |-> add_handler(Inputs[i], has)]]

(***************************************************************************)
(* The state: st.session_state.reactions_df (lines 84-87), the locals of   *)
(* the add-button handler in the run that has just ended (NoResult when    *)
(* the run was started by anything but the button), and whether the thermo *)
(* library was imported (lines 11-15).                                     *)
(***************************************************************************)
MaxRows == 2

VARIABLES reactions_df, run, HAS_THERMO

vars == <<reactions_df, run, HAS_THERMO>>

Init ==
    /\ reactions_df = <<>>
    /\ run = NoResult
    /\ HAS_THERMO \in BOOLEAN

\* The row put in front of the list.
Show_in_front(res) ==
    /\ reactions_df' = IF res.kind = "success"
                       THEN <<res.row>> \o reactions_df
                       ELSE reactions_df
    /\ run' = res
    /\ UNCHANGED HAS_THERMO

\* Lines 227-230: the row is appended when the run reaches line 227.
Show(res) ==
    /\ reactions_df' = IF res.kind = "success"
                       THEN Append(reactions_df, res.row)
                       ELSE reactions_df
    /\ run' = res
    /\ UNCHANGED HAS_THERMO

\* The add button with text Inputs[i] (lines 158-230).
Add(i) == Len(reactions_df) < MaxRows /\ Show(Handled[HAS_THERMO][i])

\* The data editor (lines 236-247): a row is deleted.  Of the editor's other
\* edits only the one of a standard potential is followed.
DeleteRow(i) ==
    /\ reactions_df' = SubSeq(reactions_df, 1, i - 1)
                       \o SubSeq(reactions_df, i + 1, Len(reactions_df))
    /\ run' = NoResult
    /\ UNCHANGED HAS_THERMO

\* The data editor: the standard potential of a row is overwritten.
E0Edits == {1510}
EditE0(i, v) ==
    /\ reactions_df[i].E0 # v
    /\ reactions_df' = [reactions_df EXCEPT ![i].E0 = v]
    /\ run' = NoResult
    /\ UNCHANGED HAS_THERMO

\* The reset button (lines 295-297), shown while the list is not empty.
Reset ==
    /\ reactions_df # <<>>
    /\ reactions_df' = <<>>
    /\ run' = NoResult
    /\ UNCHANGED HAS_THERMO

Next ==
    \/ \E i \in 1..NInputs : Add(i)
    \/ \E i \in 1..Len(reactions_df) : DeleteRow(i)
    \/ \E i \in 1..Len(reactions_df), v \in E0Edits : EditE0(i, v)
    \/ Reset

Spec == Init /\ [][Next]_vars

(***************************************************************************)
(* The handler from line 197 on as a function of the coefficient maps:     *)
(* fmt, count_spec, n_e, m_h, estimate_reaction_thermo and new_row applied *)
(* to any two maps over three species, each map with one entry per species *)
(* it holds and coefficients up to MaxCoefficient.  ExtractSpec takes the  *)
(* species that count_spec looks for and one it does not; EstimateSpec one *)
(* species whose record is all zeros, one with a record in THERMO_DB and   *)
(* one that only the thermo library knows.                                 *)
(***************************************************************************)
MaxCoefficient == 2

ExtractSpecies == << <<"e","-","1">>, <<"H","+","1">>, <<"H","2","O">> >>
EstimateSpecies == << <<"H","+","1">>, <<"H","2","O">>, <<"C","O","2">> >>

CoefficientChoices == [1..3 -> 0..MaxCoefficient]

\* The map with coefficient c[i] for species i, which it holds when c[i] > 0.
RECURSIVE MapOf(_, _, _)
MapOf(species, c, i) ==
    IF i > Len(species) THEN <<>>
    ELSE (IF c[i] > 0 THEN <<[k |-> species[i], v |-> c[i]]>> ELSE <<>>)
         \o MapOf(species, c, i + 1)

Apply(r_dict, p_dict) ==
    /\ run = NoResult
    /\ run' = register(<<>>, <<>>, <<>>, r_dict, p_dict, FALSE, HAS_THERMO)
    /\ UNCHANGED <<reactions_df, HAS_THERMO>>

Extract ==
    \E c, d \in CoefficientChoices :
        Apply(MapOf(ExtractSpecies, c, 1), MapOf(ExtractSpecies, d, 1))

Estimate ==
    \E c, d \in CoefficientChoices :
        Apply(MapOf(EstimateSpecies, c, 1), MapOf(EstimateSpecies, d, 1))

ExtractSpec == Init /\ [][Extract]_vars

EstimateSpec == Init /\ [][Estimate]_vars

(***************************************************************************)
(* Properties.                                                             *)
(***************************************************************************)
Permanganate == Inputs[1]
IronCanonical == Inputs[2]

\* The sum of f[i] over the indices i in D.
RECURSIVE SumOver(_, _)
SumOver(f, D) ==
    IF D = {} THEN 0
    ELSE LET i == CHOOSE j \in D : TRUE IN f[i] + SumOver(f, D \ {i})

\* The elements and the charge of species k, and the total of component ck
\* over the coefficient map d.
Composition(k) == formula_to_composition(k).comp
Components(d) == UNION {DOMAIN Composition(d[i].k) : i \in 1..Len(d)}
Amount(d, ck) ==
    SumOver([i \in 1..Len(d) |-> d[i].v * get(Composition(d[i].k), ck)], 1..Len(d))
Conserved(r_dict, p_dict) ==
    \A ck \in Components(r_dict) \cup Components(p_dict) :
        Amount(r_dict, ck) = Amount(p_dict, ck)

Registered == run.kind = "success"
Failed == {"no_separator", "exception"}
HasDuplicates(list) == \E i, j \in 1..Len(list) : i < j /\ list[i] = list[j]
Entry(key, coeff) == [k |-> key, v |-> coeff]

\* C1: every reaction the add operation registers is balanced: with the
\* coefficients to_int_d stored, each element and the charge total the same
\* over the reactants as over the products.
C1_RegisteredIsBalanced == Registered => Conserved(run.r_dict, run.p_dict)

\* A reaction registered from an under-determined balance.
C1_Witness ==
    /\ Registered /\ run.free_symbols
    /\ reactions_df # <<>> /\ reactions_df[Len(reactions_df)] = run.row

\* C2: clean_formula keeps the subscripts of a species that ends in a bare sign:
\* 'MnO4-' becomes MnO4 with charge -1, and the permanganate half-reaction
\* registers with the coefficients {MnO4-1: 1, H+1: 8, e-1: 5 | Mn+2: 1, H2O: 4}.
C2_PermanganateKeepsSubscript ==
    run.new_input = Permanganate =>
        /\ clean_formula(<<"M","n","O","4","-">>) = <<"M","n","O","4","-","1">>
        /\ Registered
        /\ Range(run.r_dict) = {Entry(<<"M","n","O","4","-","1">>, 1),
                                Entry(<<"H","+","1">>, 8), Entry(<<"e","-","1">>, 5)}
        /\ Range(run.p_dict) = {Entry(<<"M","n","+","2">>, 1), Entry(<<"H","2","O">>, 4)}

\* C3: parse_side never splits a species at the '+' of its canonical charge:
\* 'Fe+3 + e-1 -> Fe+2' parses to [Fe+3, e-1] and [Fe+2] and registers with
\* the coefficients {Fe+3: 1, e-1: 1 | Fe+2: 1}.
C3_ChargeSignNotSplit ==
    run.new_input = IronCanonical =>
        /\ run.r_list = << <<"F","e","+","3">>, <<"e","-","1">> >>
        /\ run.p_list = << <<"F","e","+","2">> >>
        /\ Registered
        /\ Range(run.r_dict) = {Entry(<<"F","e","+","3">>, 1), Entry(<<"e","-","1">>, 1)}
        /\ Range(run.p_dict) = {Entry(<<"F","e","+","2">>, 1)}

\* C4: an add whose parsed reactants and parsed products share a species ends
\* in the error of the balancer and leaves the list as it was.
C4_BothSidesRejected ==
    [][\A i \in 1..NInputs :
          (Add(i) /\ set(run'.r_list) \cap set(run'.p_list) # {}) =>
              /\ run'.kind = "exception"
              /\ run'.text = "Substances on both sides"
              /\ reactions_df' = reactions_df]_vars

\* The error shown for a species on both sides while a reaction is listed.
C4_Witness ==
    /\ run.kind = "exception"
    /\ set(run.r_list) \cap set(run.p_list) # {}
    /\ reactions_df # <<>>

\* C5: an input with a species twice on the same side ends in an error and
\* registers nothing.
C5_DuplicateRejected ==
    (HasDuplicates(run.r_list) \/ HasDuplicates(run.p_list)) => run.kind \in Failed

\* What the caller gets to see of a run: the kind of message and the columns
\* of the row.
Report(res) == [kind |-> res.kind, columns |-> DOMAIN res.row]

\* C6: a result whose coefficients come from free parameters set to 1 is not
\* reported like a uniquely determined one.
C6_UnderdeterminedIsFlagged ==
    (Registered /\ run.free_symbols) =>
        \A i \in 1..NInputs :
            LET res == Handled[HAS_THERMO][i]
            IN  (res.kind = "success" /\ ~res.free_symbols) => Report(res) # Report(run)

\* C7: every coefficient of a registered reaction is positive.
C7_CoefficientsPositive ==
    Registered =>
        /\ \A i \in 1..Len(run.r_dict) : run.r_dict[i].v > 0
        /\ \A i \in 1..Len(run.p_dict) : run.p_dict[i].v > 0

\* The coefficient in d of the species named name, whatever the case of its
\* letters; 0 when d has none.
Coefficient_of(d, name) ==
    SumOver([i \in 1..Len(d) |-> IF lower(d[i].k) = name THEN d[i].v ELSE 0], 1..Len(d))

\* C8: n is the magnitude of the difference of the electron's coefficients
\* (reactants minus products) and m the signed difference of the proton's.
C8_ElectronsAndProtons ==
    Registered =>
        /\ run.row.n = Abs(Coefficient_of(run.r_dict, <<"e","-","1">>)
                           - Coefficient_of(run.p_dict, <<"e","-","1">>))
        /\ run.row.n >= 0
        /\ run.row.m = Coefficient_of(run.r_dict, <<"h","+","1">>)
                       - Coefficient_of(run.p_dict, <<"h","+","1">>)

\* Maps with the electron on both sides and the proton on the products' only.
C8_Witness ==
    /\ Registered /\ run.row.n = 1 /\ run.row.m = -2
    /\ Coefficient_of(run.r_dict, <<"e","-","1">>) = 1
    /\ Coefficient_of(run.p_dict, <<"e","-","1">>) = 2

\* The thermo record of species k: the built-in table first, then the library
\* when it is there, and zeros otherwise.
HasRecord(k) == k \in DOMAIN THERMO_DB \/ (HAS_THERMO /\ k \in DOMAIN ChemicalData)
Record(k) ==
    IF k \in DOMAIN THERMO_DB THEN THERMO_DB[k]
    ELSE IF HasRecord(k) THEN ChemicalData[k] ELSE [h |-> 0, s |-> 0]
TotalH(d) == SumOver([i \in 1..Len(d) |-> d[i].v * Record(d[i].k).h], 1..Len(d))
TotalS(d) == SumOver([i \in 1..Len(d) |-> d[i].v * Record(d[i].k).s], 1..Len(d))

\* C9: dH and dS are the products' totals minus the reactants', a species
\* without a record counting as (0, 0).
C9_ProductsMinusReactants ==
    Registered =>
        /\ run.row.dH = TotalH(run.p_dict) - TotalH(run.r_dict)
        /\ run.row.dS = TotalS(run.p_dict) - TotalS(run.r_dict)

\* Maps with a species that has no record beside species that have one, on
\* each side.
C9_Witness ==
    /\ Registered /\ run.row.dH # 0 /\ run.row.dS # 0
    /\ \E i \in 1..Len(run.r_dict) : ~HasRecord(run.r_dict[i].k)
    /\ \E i \in 1..Len(run.p_dict) : HasRecord(run.p_dict[i].k)
    /\ Len(run.r_dict) > 1

IsPrefix(a, b) == Len(a) <= Len(b) /\ SubSeq(b, 1, Len(a)) = a

====
